---------------------------- MODULE Spec2Model ----------------------------
(***************************************************************************)
(* A model of the sunxi clock driver (drivers/clk/sunxi): the adjustable   *)
(* factor clock (clk-factors.c), the PLL1 factor derivation (clk-sunxi.c)  *)
(* and the fixed-rate gate (clk-fixed-gate.c).                             *)
(*                                                                         *)
(* A 32-bit register word (u32) is the set of the positions of its one     *)
(* bits, a subset of 0..31, so that the shift-and-mask macros are set      *)
(* operations.  Small integers (the u8 factors) are naturals.  A value of  *)
(* type unsigned long that the code does arithmetic on is a pair of 16-bit *)
(* limbs [hi, lo], so that the arithmetic wraps at 32 bits as it does on   *)
(* the 32-bit ARM the driver is built for.                                 *)
(***************************************************************************)
EXTENDS Integers, Sequences, FiniteSets

VARIABLES
    factors,    \* struct clk_factors: the offsets and lengths of n, k, m, p
    table,      \* factors->table
    reg,        \* the register word at factors->reg
    target,     \* the rate a caller of the PLL1 clock asks for
    ret,        \* the last call: its arguments and what it returned
    clk_lock,   \* static DEFINE_SPINLOCK(clk_lock): 0, or the caller holding it
    pc,         \* where each concurrent caller is in its operation
    loc,        \* each concurrent caller's call and its local variables
    reg0,       \* the register word before the concurrent callers started
    gate,       \* struct clk_fixed_gate: bit_idx and fixed_rate
    registered, \* what the setup functions have registered so far
    mux_clk_lock,   \* static DEFINE_SPINLOCK(clk_lock) of clk-sunxi-mux.c
    div_clk_lock    \* static DEFINE_SPINLOCK(clk_lock) of clk-sunxi-div.c

conc == <<clk_lock, pc, loc, reg0>>

others == <<gate, registered, mux_clk_lock, div_clk_lock>>

vars == <<factors, table, reg, target, ret, conc, others>>

(***************************************************************************)
(* Words and integers                                                      *)
(***************************************************************************)

\* The bit positions of a u32 (readl/writel and the 31 of SETMASK).
Word == 0..31

\* u8 -> the set of its one bits.
BitsOf(v) == {b \in 0..7 : (v \div (2^b)) % 2 = 1}

BitVal(bits, b) == IF b \in bits THEN 2^b ELSE 0

\* The (u8) cast of a u32: the low 8 bits as a natural.
U8(bits) == BitVal(bits, 0) + BitVal(bits, 1) + BitVal(bits, 2)
            + BitVal(bits, 3) + BitVal(bits, 4) + BitVal(bits, 5)
            + BitVal(bits, 6) + BitVal(bits, 7)

\* x << s on a u32: the bits shifted past bit 31 are lost.
Shl(bits, s) == {b + s : b \in bits} \cap Word

\* x >> s on a u32.
Shr(bits, s) == {b - s : b \in {c \in bits : c >= s}}

\* An unsigned long as two 16-bit limbs.
U32(x) == [hi |-> (x \div 65536) % 65536, lo |-> x % 65536]

\* x * f on unsigned long, f a promoted u8 (or u8 + 1): wraps at 2^32.
MulU32(x, f) ==
    LET lo_t == x.lo * f
        hi_t == x.hi * f + (lo_t \div 65536)
    IN  [hi |-> hi_t % 65536, lo |-> lo_t % 65536]

\* x >> s on unsigned long.  A shift count of 32 or more is undefined: the
\* ARM register shift gives 0, a machine that masks the count shifts by
\* s % 32.  The result is the set of the values a build can produce.
ShrDefined(x, s) ==
    IF s >= 16
    THEN [hi |-> 0, lo |-> x.hi \div (2^(s - 16))]
    ELSE [hi |-> x.hi \div (2^s),
          lo |-> (x.lo \div (2^s)) + (x.hi % (2^s)) * (2^(16 - s))]

ShrU32(x, s) ==
    IF s <= 31 THEN {ShrDefined(x, s)}
    ELSE {U32(0), ShrDefined(x, s % 32)}

\* x / d on unsigned long, d in 1..256.
DivU32(x, d) ==
    LET r == x.hi % d
    IN  [hi |-> x.hi \div d, lo |-> (r * 65536 + x.lo) \div d]

(***************************************************************************)
(* clk-factors.c: the bitfield macros                                      *)
(***************************************************************************)

\* Mutant: the mask with exactly len bits.
SETMASK_len_bits(len, pos) ==
    {{b \in Word : pos <= b /\ b < pos + len}}

\* The count of the right shift in SETMASK: 31 - len, an int.
SETMASK_shift(len) == 31 - len

\* #define SETMASK(len, pos) (((-1U) >> (31-len)) << (pos))
\* -1U >> (31-len) keeps len+1 one bits.  For len > 31 the shift count is
\* negative, which is undefined: the ARM register shift (count 255) gives
\* 0, a machine that masks the count to 5 bits (count 31) gives 1.
SETMASK(len, pos) ==
    IF len <= 31
    THEN {{b \in Word : pos <= b /\ b <= pos + len}}
    ELSE {{}, {pos} \cap Word}

\* #define CLRMASK(len, pos) (~(SETMASK(len, pos)))
CLRMASK(len, pos) == {Word \ mask : mask \in SETMASK(len, pos)}

\* #define FACTOR_GET(bit, len, reg) (((reg) & SETMASK(len, bit)) >> (bit))
FACTOR_GET(bit, len, r) ==
    {Shr(r \cap mask, bit) : mask \in SETMASK(len, bit)}

\* An insertion that cuts val to len bits first (not the driver's code).
FACTOR_SET_masked(bit, len, r, val) ==
    {(r \cap clr) \cup Shl(BitsOf(val % (2^len)), bit) :
        clr \in CLRMASK(len, bit)}

\* #define FACTOR_SET(bit, len, reg, val)
\*         (((reg) & CLRMASK(len, bit)) | (val << (bit)))
\* val is a u8 of the table entry, promoted to int and not masked.
FACTOR_SET(bit, len, r, val) ==
    {(r \cap clr) \cup Shl(BitsOf(val), bit) : clr \in CLRMASK(len, bit)}

(***************************************************************************)
(* clk-factors.c: the table resolver                                       *)
(***************************************************************************)

\* A table is a sequence of struct clk_factor_table ending with the
\* sentinel (val = 0).  A position is an index 1..Len(table); position 0 is
\* the address table - 1, before the first entry.
RECURSIVE table_scan(_, _, _)
table_scan(tbl, val, clkt) ==
    IF tbl[clkt].val # 0
    THEN IF tbl[clkt].val > val
         THEN clkt - 1
         ELSE table_scan(tbl, val, clkt + 1)
    ELSE clkt - 1

\* Mutant: the scan stops at the first entry >= val.
RECURSIVE table_scan_ge(_, _, _)
table_scan_ge(tbl, val, clkt) ==
    IF tbl[clkt].val # 0
    THEN IF tbl[clkt].val >= val
         THEN clkt - 1
         ELSE table_scan_ge(tbl, val, clkt + 1)
    ELSE clkt - 1

_get_table_factors_ge(tbl, val) == table_scan_ge(tbl, val, 1)

\* static const struct clk_factor_table *_get_table_factors(table, val)
_get_table_factors(tbl, val) == table_scan(tbl, val, 1)

\* What the memory before the table may hold (a sample of it).
OutOfBounds ==
    {[n |-> 0, k |-> 0, m |-> 0, p |-> 0, val |-> 0],
     [n |-> 255, k |-> 255, m |-> 255, p |-> 255, val |-> 4000000]}

\* value->..., the entry a position points to.  Reading through table - 1
\* is undefined: any of the values the memory there may hold.
Deref(tbl, pos) == IF pos \in 1..Len(tbl) THEN {tbl[pos]} ELSE OutOfBounds

(***************************************************************************)
(* clk-factors.c: the clock operations                                     *)
(***************************************************************************)

\* rate = (parent_rate * n * (k + 1) >> p) / (m + 1), on unsigned long.
RateOf(parent_rate, n, k, p, m) ==
    {DivU32(s, m + 1) :
        s \in ShrU32(MulU32(MulU32(U32(parent_rate), n), k + 1), p)}

\* clk_factors_recalc_rate: the rates it may return for register word r.
\* Each FACTOR_GET is stored into a u8.
recalc_rate(f, r, parent_rate) ==
    UNION {RateOf(parent_rate, U8(n), U8(k), U8(p), U8(m)) :
            <<n, k, p, m>> \in FACTOR_GET(f.n, f.nlen, r)
                               \X FACTOR_GET(f.k, f.klen, r)
                               \X FACTOR_GET(f.p, f.plen, r)
                               \X FACTOR_GET(f.m, f.mlen, r)}

\* clk_factors_set_rate, "Set up the new factors": m, k, n, p in turn.
set_factors(f, r, value) ==
    UNION {UNION {UNION {FACTOR_SET(f.p, f.plen, r3, value.p) :
                    r3 \in FACTOR_SET(f.n, f.nlen, r2, value.n)} :
             r2 \in FACTOR_SET(f.k, f.klen, r1, value.k)} :
      r1 \in FACTOR_SET(f.m, f.mlen, r, value.m)}

\* __delay((rate >> 20) * 500 / 2)
stabilization_delay(rate) == ((rate \div (2^20)) * 500) \div 2

(***************************************************************************)
(* clk-sunxi.c: the PLL1 factor derivation                                 *)
(***************************************************************************)

\* A p that always shifts by three (not the driver's code).
pll1_p_always3(div) == 3

\* p of sunxi_get_pll1_factors, from the u8 div.
pll1_p(div) ==
    IF div < 10 THEN 3
    ELSE IF div < 20 \/ (div < 32 /\ div % 2 = 1) THEN 2
    ELSE IF div < 40 \/ (div < 64 /\ (div \div 2) % 2 = 1) THEN 1
    ELSE 0

\* k of sunxi_get_pll1_factors, from the rounded *freq.
pll1_k(freq) ==
    IF freq >= 768000000 \/ freq = 42000000 \/ freq = 54000000 THEN 1 ELSE 0

\* Mutant: n from div alone, without the shift by p.
sunxi_get_pll1_factors_no_shift(freq) ==
    LET div == (freq \div 6000000) % 256
        rounded == 6000000 * div
    IN  [val |-> rounded, m |-> 0, k |-> pll1_k(rounded), p |-> pll1_p(div),
         n |-> (div \div (pll1_k(rounded) + 1)) \div 4]

\* A derivation whose division by four rounds n up (not the driver's code).
sunxi_get_pll1_factors_round_up(freq) ==
    LET div == (freq \div 6000000) % 256
        rounded == 6000000 * div
        k == pll1_k(rounded)
        p == pll1_p(div)
        shifted == (div * (2^p)) % 256
    IN  [val |-> rounded, m |-> 0, k |-> k, p |-> p,
         n |-> ((shifted \div (k + 1)) + 3) \div 4]

\* static void sunxi_get_pll1_factors(u32 *freq, u8 *n, u8 *k, u8 *m, u8 *p)
\* div is a u8: the quotient and the shifted div are cut to 8 bits.  val is
\* *freq on return, the frequency rounded to a multiple of 6 MHz.
sunxi_get_pll1_factors(freq) ==
    LET div == (freq \div 6000000) % 256
        rounded == 6000000 * div
        k == pll1_k(rounded)
        p == pll1_p(div)
        shifted == (div * (2^p)) % 256
    IN  [val |-> rounded, m |-> 0, k |-> k, p |-> p,
         n |-> (shifted \div (k + 1)) \div 4]

(***************************************************************************)
(* Inputs                                                                  *)
(***************************************************************************)

MaxTableLen == 3

\* struct clk_factors_config pll1_config
pll1_config ==
    [n |-> 8, nlen |-> 5, k |-> 4, klen |-> 2,
     m |-> 0, mlen |-> 2, p |-> 16, plen |-> 2]

\* Four fields packed next to one another.
AdjacentLayout ==
    [n |-> 4, nlen |-> 5, k |-> 2, klen |-> 2,
     m |-> 0, mlen |-> 2, p |-> 9, plen |-> 2]

\* A field that ends at bit 31.
TopLayout ==
    [n |-> 8, nlen |-> 5, k |-> 4, klen |-> 2,
     m |-> 0, mlen |-> 2, p |-> 30, plen |-> 2]

Layouts == {pll1_config, AdjacentLayout, TopLayout}

Row6M == [n |-> 2, k |-> 0, m |-> 0, p |-> 3, val |-> 6000000]
Row12M == [n |-> 1, k |-> 1, m |-> 3, p |-> 0, val |-> 12000000]
Row24M == [n |-> 3, k |-> 3, m |-> 2, p |-> 2, val |-> 24000000]
\* An entry whose n and k do not fit a 5-bit and a 2-bit field.
Row48M == [n |-> 68, k |-> 4, m |-> 0, p |-> 1, val |-> 48000000]

Rows == <<Row6M, Row12M, Row24M, Row48M>>

Sentinel == [n |-> 0, k |-> 0, m |-> 0, p |-> 0, val |-> 0]

\* The non-empty tables of at most MaxTableLen entries with strictly
\* increasing val, each followed by the sentinel.
RowSeqs ==
    UNION {{s \in [1..l -> 1..Len(Rows)] :
              \A i \in 1..(l - 1) : s[i] < s[i + 1]} : l \in 1..MaxTableLen}

Tables == {[i \in 1..(Len(s) + 1) |->
              IF i <= Len(s) THEN Rows[s[i]] ELSE Sentinel] : s \in RowSeqs}

\* The table with entries at 6 MHz, 12 MHz and 24 MHz.
ExampleTable == <<Row6M, Row12M, Row24M, Sentinel>>

Targets == {0, 5000000, 6000000, 10000000, 12000000, 24000000, 100000000}

ParentRates == {24000000}

InitRegs == {{}, Word, {b \in Word : b % 2 = 1}}

NoCall == [op |-> "none", rate |-> 0, pos |-> 0, val |-> U32(0), delay |-> 0]

\* The callers of the concurrent specification.
Procs == {1, 2}

NoLocals ==
    [fn |-> "none", hw |-> pll1_config, bit_idx |-> 0, lock |-> FALSE,
     rate |-> 0, value |-> Sentinel, reg |-> {}]

\* No concurrent caller: the operations are called one at a time.
NoCallers ==
    /\ clk_lock = 0
    /\ pc = [p \in Procs |-> "done"]
    /\ loc = [p \in Procs |-> NoLocals]
    /\ reg0 = {}

\* No gate, nothing set up, the locks of the other files free.
NoOthers ==
    /\ gate = [bit_idx |-> 0, fixed_rate |-> 0]
    /\ registered = [visited |-> {}, providers |-> {}, lookups |-> {}]
    /\ mux_clk_lock = 0
    /\ div_clk_lock = 0

(***************************************************************************)
(* Spec: one factor clock, its operations called one at a time             *)
(***************************************************************************)

Init ==
    /\ factors \in Layouts
    /\ table \in Tables
    /\ reg \in InitRegs
    /\ target = 0
    /\ ret = NoCall
    /\ NoCallers
    /\ NoOthers

\* static unsigned long clk_factors_recalc_rate(hw, parent_rate)
clk_factors_recalc_rate(parent_rate) ==
    /\ \E rate \in recalc_rate(factors, reg, parent_rate) :
          ret' = [op |-> "recalc_rate", rate |-> parent_rate, pos |-> 0,
                  val |-> rate, delay |-> 0]
    /\ UNCHANGED <<factors, table, reg, target, conc, others>>

\* static long clk_factors_round_rate(hw, rate, parent_rate)
clk_factors_round_rate(rate) ==
    LET pos == _get_table_factors(table, rate)
    IN  /\ \E value \in Deref(table, pos) :
              ret' = [op |-> "round_rate", rate |-> rate, pos |-> pos,
                      val |-> U32(value.val), delay |-> 0]
        /\ UNCHANGED <<factors, table, reg, target, conc, others>>

\* static int clk_factors_set_rate(hw, rate, parent_rate)
clk_factors_set_rate(rate) ==
    LET pos == _get_table_factors(table, rate)
    IN  /\ \E value \in Deref(table, pos) :
              reg' \in set_factors(factors, reg, value)
        /\ ret' = [op |-> "set_rate", rate |-> rate, pos |-> pos,
                   val |-> U32(0), delay |-> stabilization_delay(rate)]
        /\ UNCHANGED <<factors, table, target, conc, others>>

Next ==
    \/ \E parent_rate \in ParentRates : clk_factors_recalc_rate(parent_rate)
    \/ \E rate \in Targets : clk_factors_round_rate(rate)
    \/ \E rate \in Targets : clk_factors_set_rate(rate)

Spec == Init /\ [][Next]_vars

(***************************************************************************)
(* SpecPll1: the PLL1 clock of sunxi_pll1_clk_setup, a factor clock with   *)
(* pll1_config as its fields and sunxi_get_pll1_factors as its resolver.   *)
(* The caller's rate is drawn at the start; the operations are called with *)
(* it in any order.                                                        *)
(***************************************************************************)

MaxDiv == 260

\* Multiples of 6 MHz, and the last frequency before the next multiple.
Pll1Targets ==
    {6000000 * d + r : d \in 0..MaxDiv, r \in {0, 5999999}}

\* "parent_rate is always 24Mhz"
Pll1ParentRate == 24000000

InitPll1 ==
    /\ factors = pll1_config
    /\ table = <<Sentinel>>
    /\ reg \in InitRegs
    /\ target \in Pll1Targets
    /\ ret = NoCall
    /\ NoCallers
    /\ NoOthers

\* round_rate of the PLL1 clock: the derivation called to round only
\* (n == NULL), returning *freq.
pll1_round_rate ==
    /\ ret' = [op |-> "round_rate", rate |-> target, pos |-> 0,
               val |-> U32(sunxi_get_pll1_factors(target).val), delay |-> 0]
    /\ UNCHANGED <<factors, table, reg, target, conc, others>>

\* set_rate of the PLL1 clock: the derived factors are committed as
\* clk_factors_set_rate commits a table entry.
pll1_set_rate ==
    /\ reg' \in set_factors(factors, reg, sunxi_get_pll1_factors(target))
    /\ ret' = [op |-> "set_rate", rate |-> target, pos |-> 0,
               val |-> U32(0), delay |-> stabilization_delay(target)]
    /\ UNCHANGED <<factors, table, target, conc, others>>

\* recalc_rate of the PLL1 clock.
pll1_recalc_rate ==
    /\ \E rate \in recalc_rate(factors, reg, Pll1ParentRate) :
          ret' = [op |-> "recalc_rate", rate |-> Pll1ParentRate, pos |-> 0,
                  val |-> rate, delay |-> 0]
    /\ UNCHANGED <<factors, table, reg, target, conc, others>>

NextPll1 ==
    \/ pll1_round_rate
    \/ pll1_set_rate
    \/ pll1_recalc_rate

SpecPll1 == InitPll1 /\ [][NextPll1]_vars

(***************************************************************************)
(* SpecView: the bitfield macros applied to one field at a time            *)
(***************************************************************************)

\* A 32-bit field at offset 0 (the other three lie inside it).
WideLayout ==
    [n |-> 0, nlen |-> 32, k |-> 4, klen |-> 2,
     m |-> 0, mlen |-> 2, p |-> 16, plen |-> 2]

ViewLayouts == Layouts \cup {WideLayout}

FieldNames == {"n", "k", "m", "p"}

FieldBit(f, name) ==
    CASE name = "n" -> f.n [] name = "k" -> f.k
      [] name = "m" -> f.m [] name = "p" -> f.p

FieldLen(f, name) ==
    CASE name = "n" -> f.nlen [] name = "k" -> f.klen
      [] name = "m" -> f.mlen [] name = "p" -> f.plen

\* The u8 values inserted.
SampleVals == {0, 1, 3, 31}

InitView ==
    /\ factors \in ViewLayouts
    /\ table = <<Sentinel>>
    /\ reg \in InitRegs
    /\ target = 0
    /\ ret = [op |-> "none", field |-> "n", val |-> 0, out |-> {}]
    /\ NoCallers
    /\ NoOthers

\* reg = FACTOR_SET(bit, len, reg, val)
view_insert(name, v) ==
    /\ reg' \in FACTOR_SET(FieldBit(factors, name), FieldLen(factors, name), reg, v)
    /\ ret' = [op |-> "FACTOR_SET", field |-> name, val |-> v, out |-> {}]
    /\ UNCHANGED <<factors, table, target, conc, others>>

\* FACTOR_GET(bit, len, reg)
view_extract(name) ==
    /\ \E out \in FACTOR_GET(FieldBit(factors, name), FieldLen(factors, name), reg) :
          ret' = [op |-> "FACTOR_GET", field |-> name, val |-> 0, out |-> out]
    /\ UNCHANGED <<factors, table, reg, target, conc, others>>

NextView ==
    \/ \E name \in FieldNames, v \in SampleVals : view_insert(name, v)
    \/ \E name \in FieldNames : view_extract(name)

SpecView == InitView /\ [][NextView]_vars

(***************************************************************************)
(* SpecConc: two callers, each running one mutating operation on a clock   *)
(* of the same register word, step by step: set_rate on a factor clock, or *)
(* enable / disable on a gate.  A clock is registered with &clk_lock or    *)
(* with no lock (lock == NULL).                                            *)
(***************************************************************************)

\* #define SUNXI_OSC24M_GATE 0
SUNXI_OSC24M_GATE == 0

\* A second factor clock in the upper half of the same word.
UpperLayout ==
    [n |-> 26, nlen |-> 5, k |-> 23, klen |-> 2,
     m |-> 20, mlen |-> 2, p |-> 14, plen |-> 1]

ConcLayouts == {pll1_config, UpperLayout}

ConcRates == {6000000, 100000000}

GateBits == {SUNXI_OSC24M_GATE, 31}

SetRateCalls ==
    {[fn |-> "set_rate", hw |-> h, bit_idx |-> 0, lock |-> l,
      rate |-> r, value |-> Sentinel, reg |-> {}] :
        h \in ConcLayouts, l \in BOOLEAN, r \in ConcRates}

GateCalls ==
    {[fn |-> f, hw |-> pll1_config, bit_idx |-> b, lock |-> l,
      rate |-> 0, value |-> Sentinel, reg |-> {}] :
        f \in {"enable", "disable"}, b \in GateBits, l \in BOOLEAN}

\* The first statement of each operation.
Entry(call) == IF call.fn = "set_rate" THEN "resolve" ELSE "lock"

InitConc ==
    /\ factors = pll1_config
    /\ table = ExampleTable
    /\ reg \in InitRegs
    /\ reg0 = reg
    /\ target = 0
    /\ ret = NoCall
    /\ clk_lock = 0
    /\ loc \in [Procs -> SetRateCalls \cup GateCalls]
    /\ pc = [p \in Procs |-> Entry(loc[p])]
    /\ NoOthers

\* clk_factors_set_rate: value = _get_table_factors(factors->table, rate)
set_rate_resolve(p) ==
    /\ pc[p] = "resolve"
    /\ \E value \in Deref(table, _get_table_factors(table, loc[p].rate)) :
          loc' = [loc EXCEPT ![p].value = value]
    /\ pc' = [pc EXCEPT ![p] = "lock"]
    /\ UNCHANGED <<factors, table, reg, target, ret, clk_lock, reg0, others>>

\* Mutant: the lock is taken without waiting for its holder to release it.
spin_lock_irqsave_no_wait(p) ==
    /\ pc[p] = "lock"
    /\ clk_lock' = IF loc[p].lock THEN p ELSE clk_lock
    /\ pc' = [pc EXCEPT ![p] = "readl"]
    /\ UNCHANGED <<factors, table, reg, target, ret, loc, reg0, others>>

\* if (lock) spin_lock_irqsave(lock, flags): waits until the lock is free.
spin_lock_irqsave(p) ==
    /\ pc[p] = "lock"
    /\ IF loc[p].lock
       THEN clk_lock = 0 /\ clk_lock' = p
       ELSE UNCHANGED clk_lock
    /\ pc' = [pc EXCEPT ![p] = "readl"]
    /\ UNCHANGED <<factors, table, reg, target, ret, loc, reg0, others>>

\* reg = readl(...->reg)
do_readl(p) ==
    /\ pc[p] = "readl"
    /\ loc' = [loc EXCEPT ![p].reg = reg]
    /\ pc' = [pc EXCEPT ![p] = "writel"]
    /\ UNCHANGED <<factors, table, reg, target, ret, clk_lock, reg0, others>>

\* Mutant: the lock is dropped with the write, before the delay.
set_rate_writel_unlocks(p) ==
    /\ pc[p] = "writel"
    /\ loc[p].fn = "set_rate"
    /\ reg' \in set_factors(loc[p].hw, loc[p].reg, loc[p].value)
    /\ clk_lock' = IF loc[p].lock THEN 0 ELSE clk_lock
    /\ pc' = [pc EXCEPT ![p] = "delay"]
    /\ UNCHANGED <<factors, table, target, ret, loc, reg0, others>>

\* clk_factors_set_rate: the four FACTOR_SET on the local reg, then
\* writel(reg, factors->reg)
set_rate_writel(p) ==
    /\ pc[p] = "writel"
    /\ loc[p].fn = "set_rate"
    /\ reg' \in set_factors(loc[p].hw, loc[p].reg, loc[p].value)
    /\ pc' = [pc EXCEPT ![p] = "delay"]
    /\ UNCHANGED <<factors, table, target, ret, clk_lock, loc, reg0, others>>

\* clk_factors_set_rate: __delay((rate >> 20) * 500 / 2)
set_rate_delay(p) ==
    /\ pc[p] = "delay"
    /\ pc' = [pc EXCEPT ![p] = "unlock"]
    /\ UNCHANGED <<factors, table, reg, target, ret, clk_lock, loc, reg0, others>>

\* An enable that stores BIT(bit_idx) alone, dropping the other bits (not
\* the driver's code).
gate_endisable_overwrite(r, bit_idx, enable) ==
    IF enable THEN {bit_idx} ELSE r \ {bit_idx}

\* clk_fixed_gate_endisable: reg |= BIT(bit_idx) or reg &= ~BIT(bit_idx),
\* then writel(reg, gate->reg)
gate_endisable(r, bit_idx, enable) ==
    IF enable THEN r \cup {bit_idx} ELSE r \ {bit_idx}

gate_writel(p) ==
    /\ pc[p] = "writel"
    /\ loc[p].fn \in {"enable", "disable"}
    /\ reg' = gate_endisable(loc[p].reg, loc[p].bit_idx, loc[p].fn = "enable")
    /\ pc' = [pc EXCEPT ![p] = "unlock"]
    /\ UNCHANGED <<factors, table, target, ret, clk_lock, loc, reg0, others>>

\* if (lock) spin_unlock_irqrestore(lock, flags), and the return.
spin_unlock_irqrestore(p) ==
    /\ pc[p] = "unlock"
    /\ clk_lock' = IF loc[p].lock THEN 0 ELSE clk_lock
    /\ pc' = [pc EXCEPT ![p] = "done"]
    /\ UNCHANGED <<factors, table, reg, target, ret, loc, reg0, others>>

NextConc ==
    \E p \in Procs :
        \/ set_rate_resolve(p)
        \/ spin_lock_irqsave(p)
        \/ do_readl(p)
        \/ set_rate_writel(p)
        \/ set_rate_delay(p)
        \/ gate_writel(p)
        \/ spin_unlock_irqrestore(p)

SpecConc == InitConc /\ [][NextConc]_vars

(***************************************************************************)
(* SpecGate: one gate node (clk-fixed-gate.c) whose operations are called  *)
(* one at a time, next to the query operations of a factor clock that      *)
(* lives in the same register word.                                        *)
(***************************************************************************)

\* u8 bit_idx: every bit of the 32-bit register.
GateBitIdx == Word

\* The 24 MHz oscillator of the device tree, and a slow one.
FixedRates == {24000000, 32768}

InitGate ==
    /\ factors = pll1_config
    /\ table = ExampleTable
    /\ reg \in InitRegs
    /\ target = 0
    /\ ret = NoCall
    /\ NoCallers
    /\ gate \in [bit_idx : GateBitIdx, fixed_rate : FixedRates]
    /\ registered = [visited |-> {}, providers |-> {}, lookups |-> {}]
    /\ mux_clk_lock = 0
    /\ div_clk_lock = 0

\* static int clk_fixed_gate_enable(hw): clk_fixed_gate_endisable(hw, 1)
\* under the lock, return 0.
clk_fixed_gate_enable ==
    /\ clk_lock = 0
    /\ reg' = gate_endisable(reg, gate.bit_idx, TRUE)
    /\ ret' = [op |-> "enable", rate |-> 0, pos |-> 0, val |-> U32(0),
               delay |-> 0]
    /\ UNCHANGED <<factors, table, target, conc, others>>

\* static void clk_fixed_gate_disable(hw): clk_fixed_gate_endisable(hw, 0)
clk_fixed_gate_disable ==
    /\ clk_lock = 0
    /\ reg' = gate_endisable(reg, gate.bit_idx, FALSE)
    /\ ret' = [op |-> "disable", rate |-> 0, pos |-> 0, val |-> U32(0),
               delay |-> 0]
    /\ UNCHANGED <<factors, table, target, conc, others>>

\* is_enabled reading another bit than its own (not the driver's code).
gate_is_enabled_bit0(r, bit_idx) ==
    IF 0 \in r THEN 1 ELSE 0

\* reg = readl(gate->reg); reg &= BIT(gate->bit_idx); return reg ? 1 : 0;
gate_is_enabled(r, bit_idx) ==
    IF bit_idx \in r THEN 1 ELSE 0

\* is_enabled storing the masked word back (not the driver's code).
clk_fixed_gate_is_enabled_writes ==
    /\ reg' = reg \cap {gate.bit_idx}
    /\ ret' = [op |-> "is_enabled", rate |-> 0, pos |-> 0,
               val |-> U32(gate_is_enabled(reg, gate.bit_idx)), delay |-> 0]
    /\ UNCHANGED <<factors, table, target, conc, others>>

\* static int clk_fixed_gate_is_enabled(hw): no lock, one read.
clk_fixed_gate_is_enabled ==
    /\ ret' = [op |-> "is_enabled", rate |-> 0, pos |-> 0,
               val |-> U32(gate_is_enabled(reg, gate.bit_idx)), delay |-> 0]
    /\ UNCHANGED <<factors, table, reg, target, conc, others>>

\* static unsigned long clk_fixed_gate_recalc_rate(hw, parent_rate):
\* return to_clk_fixed_gate(hw)->fixed_rate.
clk_fixed_gate_recalc_rate(parent_rate) ==
    /\ ret' = [op |-> "gate_recalc_rate", rate |-> parent_rate, pos |-> 0,
               val |-> U32(gate.fixed_rate), delay |-> 0]
    /\ UNCHANGED <<factors, table, reg, target, conc, others>>

NextGate ==
    \/ clk_fixed_gate_enable
    \/ clk_fixed_gate_disable
    \/ clk_fixed_gate_is_enabled
    \/ \E parent_rate \in {0} \cup ParentRates :
          clk_fixed_gate_recalc_rate(parent_rate)
    \/ \E rate \in Targets : clk_factors_round_rate(rate)
    \/ \E parent_rate \in ParentRates : clk_factors_recalc_rate(parent_rate)

SpecGate == InitGate /\ [][NextGate]_vars


(***************************************************************************)
(* SpecSetup: sunxi_init_clocks of clk-sunxi.c walking the device tree.    *)
(* A struct clk pointer is the clock's name, or one of the error pointers. *)
(***************************************************************************)

ErrPtrs == {"ERR_PTR(-ENOMEM)", "ERR_PTR(-EINVAL)"}

IS_ERR(clk) == clk \in ErrPtrs

NULL == "NULL"

\* The nodes of_clk_init(clk_match) visits, and the divider nodes.
ClkMatchNodes == {"osc24M", "pll1", "cpu"}

ClkDivMatchNodes == {"axi", "ahb", "apb0"}

\* clk_register of the clock framework: the clock, or an error pointer.
clk_register(name) == {name} \cup ErrPtrs

\* clk_register_fixed_gate: ERR_PTR(-ENOMEM) when kzalloc fails, else what
\* clk_register returns (the gate is freed when that is an error).
clk_register_fixed_gate(name) == {"ERR_PTR(-ENOMEM)"} \cup clk_register(name)

\* clk_register_factors: the same construction for a factor clock.
clk_register_factors(name) == {"ERR_PTR(-ENOMEM)"} \cup clk_register(name)

\* clk_register_mux and clk_register_divider of the clock framework.
clk_register_mux(name) == {"ERR_PTR(-ENOMEM)"} \cup clk_register(name)

clk_register_divider(name) == {"ERR_PTR(-ENOMEM)"} \cup clk_register(name)

\* of_clk_add_provider(node, of_clk_src_simple_get, clk): stores clk as the
\* provider's data, whatever pointer it is.
of_clk_add_provider(providers, node, clk) ==
    providers \cup {[node |-> node, clk |-> clk]}

\* clk_register_clkdev(clk, clk_name, NULL): adds the lookup; whether it
\* refuses an error pointer is the framework's choice.
clk_register_clkdev(lookups, clk, name) ==
    IF IS_ERR(clk)
    THEN {lookups, lookups \cup {[clk |-> clk, name |-> name]}}
    ELSE {lookups \cup {[clk |-> clk, name |-> name]}}

\* if (clk) { of_clk_add_provider(...); clk_register_clkdev(...); }
if_clk_provide(node, clk) ==
    IF clk # NULL
    THEN \E l \in clk_register_clkdev(registered.lookups, clk, node) :
            registered' =
                [visited |-> registered.visited \cup {node},
                 providers |->
                     of_clk_add_provider(registered.providers, node, clk),
                 lookups |-> l]
    ELSE registered' =
             [registered EXCEPT !.visited = registered.visited \cup {node}]

InitSetup ==
    /\ factors = pll1_config
    /\ table = <<Sentinel>>
    /\ reg = {}
    /\ target = 0
    /\ ret = NoCall
    /\ NoCallers
    /\ NoOthers

\* static void __init sunxi_osc_clk_setup(node)
sunxi_osc_clk_setup ==
    /\ "osc24M" \notin registered.visited
    /\ \E has_clock_frequency \in BOOLEAN :
          IF ~has_clock_frequency
          THEN registered' =
                   [registered EXCEPT
                       !.visited = registered.visited \cup {"osc24M"}]
          ELSE \E clk \in clk_register_fixed_gate("osc24M") :
                   if_clk_provide("osc24M", clk)
    /\ UNCHANGED <<factors, table, reg, target, ret, conc, gate,
                   mux_clk_lock, div_clk_lock>>

\* static void __init sunxi_pll1_clk_setup(node)
sunxi_pll1_clk_setup ==
    /\ "pll1" \notin registered.visited
    /\ \E clk \in clk_register_factors("pll1") : if_clk_provide("pll1", clk)
    /\ UNCHANGED <<factors, table, reg, target, ret, conc, gate,
                   mux_clk_lock, div_clk_lock>>

\* static void __init sunxi_cpu_clk_setup(node)
sunxi_cpu_clk_setup ==
    /\ "cpu" \notin registered.visited
    /\ \E clk \in clk_register_mux("cpu") : if_clk_provide("cpu", clk)
    /\ UNCHANGED <<factors, table, reg, target, ret, conc, gate,
                   mux_clk_lock, div_clk_lock>>

\* static void __init sunxi_divider_clk_setup(node, shift, power_of_two),
\* called by of_sunxi_divider_clock_setup after of_clk_init has returned.
sunxi_divider_clk_setup(node) ==
    /\ ClkMatchNodes \subseteq registered.visited
    /\ node \notin registered.visited
    /\ \E clk \in clk_register_divider(node) : if_clk_provide(node, clk)
    /\ UNCHANGED <<factors, table, reg, target, ret, conc, gate,
                   mux_clk_lock, div_clk_lock>>

NextSetup ==
    \/ sunxi_osc_clk_setup
    \/ sunxi_pll1_clk_setup
    \/ sunxi_cpu_clk_setup
    \/ \E node \in ClkDivMatchNodes : sunxi_divider_clk_setup(node)

SpecSetup == InitSetup /\ [][NextSetup]_vars


(***************************************************************************)
(* SpecShared: two callers changing fields of one control word through the *)
(* mux and divider nodes that the setup functions of clk-sunxi-mux.c,      *)
(* clk-sunxi-div.c and clk-sunxi.c register.  Each file has a clk_lock of  *)
(* its own and hands it to the nodes it registers.                         *)
(***************************************************************************)

\* sun4i_cpu_mux_data of clk-sunxi-mux.c, registered with that file's lock.
sun4i_cpu_mux_data ==
    [file |-> "clk-sunxi-mux.c", shift |-> 16, width |-> 2]

\* sun4i_axi_data, sun4i_ahb_data, sun4i_apb0_data of clk-sunxi-div.c.
sun4i_div_data ==
    {[file |-> "clk-sunxi-div.c", shift |-> s, width |-> 2] : s \in {0, 4, 8}}

\* The cpu mux (SUNXI_CPU_GATE, SUNXI_CPU_GATE_WIDTH) and the axi, ahb and
\* apb0 dividers (SUNXI_DIVISOR_WIDTH) that clk-sunxi.c registers.
sunxi_c_data ==
    {[file |-> "clk-sunxi.c", shift |-> s, width |-> 2] : s \in {0, 4, 8, 16}}

SharedNodes == {sun4i_cpu_mux_data} \cup sun4i_div_data \cup sunxi_c_data

\* The parent index or divider value a call writes into its 2-bit field.
FieldVals == 0..3

SharedCalls ==
    {[fn |-> "set_field", file |-> nd.file, shift |-> nd.shift,
      width |-> nd.width, val |-> v, reg |-> {}] :
        nd \in SharedNodes, v \in FieldVals}

\* The holder of the clk_lock of a file, 0 when it is free.
LockOf(file) ==
    CASE file = "clk-sunxi.c" -> clk_lock
      [] file = "clk-sunxi-mux.c" -> mux_clk_lock
      [] file = "clk-sunxi-div.c" -> div_clk_lock

InitShared ==
    /\ factors = pll1_config
    /\ table = <<Sentinel>>
    /\ reg \in InitRegs
    /\ reg0 = reg
    /\ target = 0
    /\ ret = NoCall
    /\ clk_lock = 0
    /\ loc \in [Procs -> SharedCalls]
    /\ pc = [p \in Procs |-> "lock"]
    /\ NoOthers

\* spin_lock_irqsave(lock, flags) on the lock the node was registered with.
field_lock(p) ==
    /\ pc[p] = "lock"
    /\ LockOf(loc[p].file) = 0
    /\ clk_lock' = IF loc[p].file = "clk-sunxi.c" THEN p ELSE clk_lock
    /\ mux_clk_lock' =
           IF loc[p].file = "clk-sunxi-mux.c" THEN p ELSE mux_clk_lock
    /\ div_clk_lock' =
           IF loc[p].file = "clk-sunxi-div.c" THEN p ELSE div_clk_lock
    /\ pc' = [pc EXCEPT ![p] = "readl"]
    /\ UNCHANGED <<factors, table, reg, target, ret, loc, reg0, gate,
                   registered>>

\* val = readl(reg)
field_readl(p) ==
    /\ pc[p] = "readl"
    /\ loc' = [loc EXCEPT ![p].reg = reg]
    /\ pc' = [pc EXCEPT ![p] = "writel"]
    /\ UNCHANGED <<factors, table, reg, target, ret, clk_lock, reg0, others>>

\* The word with the field at shift replaced by val.
field_insert(r, shift, width, val) ==
    {b \in r : b < shift \/ b >= shift + width}
        \cup Shl(BitsOf(val % (2^width)), shift)

\* val &= ~(mask << shift); val |= index << shift; writel(val, reg)
field_writel(p) ==
    /\ pc[p] = "writel"
    /\ reg' = field_insert(loc[p].reg, loc[p].shift, loc[p].width, loc[p].val)
    /\ pc' = [pc EXCEPT ![p] = "unlock"]
    /\ UNCHANGED <<factors, table, target, ret, clk_lock, loc, reg0, others>>

\* spin_unlock_irqrestore(lock, flags)
field_unlock(p) ==
    /\ pc[p] = "unlock"
    /\ clk_lock' = IF loc[p].file = "clk-sunxi.c" THEN 0 ELSE clk_lock
    /\ mux_clk_lock' =
           IF loc[p].file = "clk-sunxi-mux.c" THEN 0 ELSE mux_clk_lock
    /\ div_clk_lock' =
           IF loc[p].file = "clk-sunxi-div.c" THEN 0 ELSE div_clk_lock
    /\ pc' = [pc EXCEPT ![p] = "done"]
    /\ UNCHANGED <<factors, table, reg, target, ret, loc, reg0, gate,
                   registered>>

NextShared ==
    \E p \in Procs :
        \/ field_lock(p)
        \/ field_readl(p)
        \/ field_writel(p)
        \/ field_unlock(p)

SpecShared == InitShared /\ [][NextShared]_vars


(***************************************************************************)
(* SpecRound: a caller that rounds a rate and then rounds or commits the   *)
(* rounded rate, on a table clock (table resolver) or on the PLL1 clock    *)
(* (the 6 MHz derivation; the clock with no table).                        *)
(***************************************************************************)

\* The caller's rates for a table clock: Targets and the last row's val.
RoundTargets == Targets \cup {Row48M.val}

\* An unsigned long below 2^31 as a natural.
NatOf(v) == v.hi * 65536 + v.lo

\* The clock resolves by derivation, not by table.
IsPll1 == table = <<Sentinel>>

InitRound ==
    /\ \/ /\ factors \in Layouts
          /\ table \in Tables
          /\ target \in RoundTargets
       \/ /\ factors = pll1_config
          /\ table = <<Sentinel>>
          /\ target \in Pll1Targets
    /\ reg \in InitRegs
    /\ ret = NoCall
    /\ NoCallers
    /\ NoOthers

\* The rates the caller passes: its own rate, or what round_rate has just
\* returned.
CallRates ==
    {target} \cup (IF ret.op = "round_rate" THEN {NatOf(ret.val)} ELSE {})

\* round_rate of the PLL1 clock for any rate.
pll1_round_rate_of(rate) ==
    /\ ret' = [op |-> "round_rate", rate |-> rate, pos |-> 0,
               val |-> U32(sunxi_get_pll1_factors(rate).val), delay |-> 0]
    /\ UNCHANGED <<factors, table, reg, target, conc, others>>

\* set_rate of the PLL1 clock for any rate.
pll1_set_rate_of(rate) ==
    /\ reg' \in set_factors(factors, reg, sunxi_get_pll1_factors(rate))
    /\ ret' = [op |-> "set_rate", rate |-> rate, pos |-> 0,
               val |-> U32(0), delay |-> stabilization_delay(rate)]
    /\ UNCHANGED <<factors, table, target, conc, others>>

\* round_rate and set_rate of the clock, whichever resolver it has.
round_rate(rate) ==
    IF IsPll1 THEN pll1_round_rate_of(rate) ELSE clk_factors_round_rate(rate)

set_rate(rate) ==
    IF IsPll1 THEN pll1_set_rate_of(rate) ELSE clk_factors_set_rate(rate)

NextRound ==
    \/ \E rate \in CallRates : round_rate(rate)
    \/ \E rate \in CallRates : set_rate(rate)

SpecRound == InitRound /\ [][NextRound]_vars


(***************************************************************************)
(* Claims about the factor clock (Spec)                                    *)
(***************************************************************************)

\* The real entries of a table: every position but the sentinel's.
RealEntries(tbl) == 1..(Len(tbl) - 1)

Resolved == ret.op \in {"round_rate", "set_rate"}

\* C1: for a non-empty sorted table and any target, also one below the
\* first entry's frequency, the resolver returns the position of a real
\* entry: never a position before the first entry, never the sentinel.
C1_ResolverReturnsRealEntry ==
    Resolved => ret.pos \in RealEntries(table)

\* The greatest frequency of the table that is <= rate.
IsFloor(tbl, pos, rate) ==
    /\ pos \in RealEntries(tbl)
    /\ tbl[pos].val <= rate
    /\ \A j \in RealEntries(tbl) : tbl[j].val <= rate => tbl[j].val <= tbl[pos].val

\* C2: for a sorted table and a target >= the first entry's frequency the
\* resolver returns the entry with the greatest frequency <= target, the
\* last real entry when the target exceeds them all, and round_rate
\* returns that entry's frequency (6M->6M, 10M->6M, 24M->24M, 100M->24M on
\* the table [6M, 12M, 24M]).
C2_ResolverFloor ==
    (Resolved /\ ret.rate >= table[1].val) =>
        /\ IsFloor(table, ret.pos, ret.rate)
        /\ (\A j \in RealEntries(table) : table[j].val <= ret.rate)
              => ret.pos = Len(table) - 1
        /\ ret.op = "round_rate" => ret.val = U32(table[ret.pos].val)
        /\ (ret.op = "round_rate" /\ table = ExampleTable) =>
              /\ ret.rate = 6000000 => ret.val = U32(6000000)
              /\ ret.rate = 10000000 => ret.val = U32(6000000)
              /\ ret.rate = 24000000 => ret.val = U32(24000000)
              /\ ret.rate = 100000000 => ret.val = U32(24000000)

\* A target above every entry is clamped to the last entry, and a target
\* between two entries is rounded down.
C2_Witness ==
    /\ table = ExampleTable
    /\ ret.op = "round_rate"
    /\ \/ ret.rate = 100000000 /\ ret.val = U32(24000000)
       \/ ret.rate = 10000000 /\ ret.val = U32(6000000)

\* Bits offset .. offset+width-1 of the four fields.
FieldBits(f) ==
    {b \in Word : \/ f.n <= b /\ b < f.n + f.nlen
                  \/ f.k <= b /\ b < f.k + f.klen
                  \/ f.m <= b /\ b < f.m + f.mlen
                  \/ f.p <= b /\ b < f.p + f.plen}

\* Every factor of the entry fits its field.
InWidth(v, width) == width >= 8 \/ v < 2^width

InRange(e, f) ==
    /\ InWidth(e.n, f.nlen)
    /\ InWidth(e.k, f.klen)
    /\ InWidth(e.m, f.mlen)
    /\ InWidth(e.p, f.plen)

\* C7: set_rate with an in-range factor set changes only the bits inside
\* the four configured fields: every other bit of the register is the same
\* after set_rate as before it.
C7_SetRateFrame ==
    [][(/\ ret'.op = "set_rate"
        /\ ret'.pos \in RealEntries(table)
        /\ InRange(table[ret'.pos], factors))
       => \A b \in Word \ FieldBits(factors) : (b \in reg') <=> (b \in reg)]_vars

\* The width-bit content of a field, as a natural.
FieldValue(r, offset, width) ==
    U8(Shr({b \in r : offset <= b /\ b < offset + width}, offset))

\* C8: recalc_rate returns (parent_rate * n * (k+1) >> p) / (m+1) for n,
\* k, m, p the width-bit contents of their fields.
C8_RecalcDecodesFields ==
    ret.op = "recalc_rate" =>
        ret.val \in RateOf(ret.rate,
                           FieldValue(reg, factors.n, factors.nlen),
                           FieldValue(reg, factors.k, factors.klen),
                           FieldValue(reg, factors.p, factors.plen),
                           FieldValue(reg, factors.m, factors.mlen))

\* C10: set_rate is idempotent on the register: a second set_rate with the
\* same target, called right after the first, leaves the register as it is.
C10_SetRateIdempotent ==
    [][(ret.op = "set_rate" /\ ret'.op = "set_rate" /\ ret'.rate = ret.rate)
       => reg' = reg]_vars

(***************************************************************************)
(* Claims about the PLL1 clock (SpecPll1)                                  *)
(***************************************************************************)

\* C5: for PLL1 (parent rate 24 MHz, the PLL1 fields), recalc_rate called
\* after set_rate(target) returns the rounded frequency that the derivation
\* reported for target.
C5_RecalcAfterSetRate ==
    [][(ret.op = "set_rate" /\ ret'.op = "recalc_rate")
       => ret'.val = U32(sunxi_get_pll1_factors(target).val)]_vars

(***************************************************************************)
(* Claims about the bitfield macros (SpecView)                             *)
(***************************************************************************)

\* The bits offset .. offset+width-1 of one field.
BitsOfField(f, name) ==
    {b \in 0..63 : FieldBit(f, name) <= b
                   /\ b < FieldBit(f, name) + FieldLen(f, name)}

\* Four fields inside the word, no two of them sharing a bit.
NonOverlapping(f) ==
    /\ \A g \in FieldNames : BitsOfField(f, g) # {} /\ BitsOfField(f, g) \subseteq Word
    /\ \A g, h \in FieldNames :
          g # h => BitsOfField(f, g) \cap BitsOfField(f, h) = {}

\* C6: with four pairwise non-overlapping fields (adjacent ones included),
\* inserting an in-range value into one field leaves the extracted value
\* of each of the other three fields as it was.
C6_InsertIsolation ==
    [][(/\ ret'.op = "FACTOR_SET"
        /\ NonOverlapping(factors)
        /\ InWidth(ret'.val, FieldLen(factors, ret'.field)))
       => \A g \in FieldNames \ {ret'.field} :
             FACTOR_GET(FieldBit(factors, g), FieldLen(factors, g), reg')
               = FACTOR_GET(FieldBit(factors, g), FieldLen(factors, g), reg)]_vars

\* C9: for every word, every field (offset, width) inside the word and
\* every v < 2^width, extracting the field right after inserting v into it
\* returns v.
C9_RoundTrip ==
    [][(/\ ret.op = "FACTOR_SET"
        /\ ret'.op = "FACTOR_GET"
        /\ ret'.field = ret.field
        /\ BitsOfField(factors, ret.field) \subseteq Word
        /\ InWidth(ret.val, FieldLen(factors, ret.field)))
       => ret'.out = BitsOf(ret.val)]_vars

\* C22: for every field of width 1..32 that lies inside the word, the mask
\* computation shifts by a count in 0..31 only and yields the mask with
\* exactly width consecutive one bits from offset on, so that an extraction
\* returns exactly the bits of the field.
C22_MaskHasWidthBits ==
    (ret.op = "FACTOR_GET" /\ BitsOfField(factors, ret.field) \subseteq Word)
        => LET pos == FieldBit(factors, ret.field)
               len == FieldLen(factors, ret.field)
           IN  /\ len \in 1..32
               /\ SETMASK_shift(len) \in 0..31
               /\ SETMASK(len, pos) = {BitsOfField(factors, ret.field)}
               /\ ret.out = Shr(reg \cap BitsOfField(factors, ret.field), pos)

(***************************************************************************)
(* Claims about concurrent callers (SpecConc)                              *)
(***************************************************************************)

\* Both clocks were registered with the shared lock.
BothLocked == \A p \in Procs : loc[p].lock

\* The caller's write of the register has happened.
Written(p) == pc[p] \in {"delay", "unlock", "done"}

\* The register words that caller p's operation, run alone, makes of r.
RunAlone(p, r) ==
    IF loc[p].fn = "set_rate"
    THEN set_factors(loc[p].hw, r, loc[p].value)
    ELSE {gate_endisable(r, loc[p].bit_idx, loc[p].fn = "enable")}

\* p's operation, then q's.
Serial(p, q) == UNION {RunAlone(q, r) : r \in RunAlone(p, reg0)}

\* C3: two mutating operations on clocks sharing a register word and a
\* lock never interleave their read-modify-writes: the register holds the
\* result of the operations that have written so far, run one after the
\* other in some order, and in the end that of both.
C3_Serializable ==
    BothLocked =>
        /\ (~Written(1) /\ ~Written(2)) => reg = reg0
        /\ (Written(1) /\ ~Written(2)) => reg \in RunAlone(1, reg0)
        /\ (~Written(1) /\ Written(2)) => reg \in RunAlone(2, reg0)
        /\ (Written(1) /\ Written(2)) => reg \in Serial(1, 2) \cup Serial(2, 1)

\* Both callers have returned, and the register holds both updates: those
\* of two set_rate on different clocks, or of a set_rate and a gate.
C3_Witness ==
    /\ BothLocked
    /\ \A p \in Procs : pc[p] = "done"
    /\ loc[1].fn = "set_rate"
    /\ loc[2].fn = "set_rate" => loc[2].hw # loc[1].hw
    /\ reg \notin RunAlone(1, reg0) \cup RunAlone(2, reg0)

\* From the acquisition of the lock to its release.
Holds(p) == pc[p] \in {"readl", "writel", "delay", "unlock"}

\* C4: with a lock configured, the lock is held from before the register
\* is read until after it is written and, for set_rate, until the delay is
\* over; no other holder of the lock is between its read and its release
\* at the same time; the lock is not held on return.
C4_LockSpansReadModifyWrite ==
    \A p \in Procs :
        loc[p].lock =>
            /\ Holds(p) => clk_lock = p
            /\ pc[p] \in {"resolve", "lock", "done"} => clk_lock # p
            /\ \A q \in Procs \ {p} : loc[q].lock => ~(Holds(p) /\ Holds(q))

\* A set_rate is in its stabilization delay, holding the lock, while the
\* other caller waits for the lock.
C4_Witness ==
    \E p \in Procs, q \in Procs :
        /\ p # q
        /\ loc[p].lock /\ loc[q].lock
        /\ loc[p].fn = "set_rate"
        /\ pc[p] = "delay"
        /\ pc[q] = "lock"
        /\ clk_lock = p

(***************************************************************************)
(* Further claims about the PLL1 clock (SpecPll1)                          *)
(***************************************************************************)

\* C11: for every target, the PLL1 derivation reports
\* rounded_freq = 6,000,000 * floor(target / 6,000,000).
C11_RoundsToSixMHzGrid ==
    ret.op = "round_rate"
        => ret.val = U32(6000000 * (target \div 6000000))

\* C15: for every target the factor set the PLL1 derivation computes fits
\* the PLL1 field widths (n < 32, k < 4, m < 4, p < 4), the intermediate
\* div << p does not exceed 255, and so the committed register fields hold
\* exactly the derived factors.
C15_Pll1FactorsFit ==
    ret.op = "set_rate"
        => LET f == sunxi_get_pll1_factors(target)
               div == (target \div 6000000) % 256
           IN  /\ f.n < 2^pll1_config.nlen
               /\ f.k < 2^pll1_config.klen
               /\ f.m < 2^pll1_config.mlen
               /\ f.p < 2^pll1_config.plen
               /\ div * (2^f.p) <= 255
               /\ FieldValue(reg, factors.n, factors.nlen) = f.n
               /\ FieldValue(reg, factors.k, factors.klen) = f.k
               /\ FieldValue(reg, factors.m, factors.mlen) = f.m
               /\ FieldValue(reg, factors.p, factors.plen) = f.p

\* The largest div has been committed: div = 255, k = 1, p = 0, n = 31.
C15_Witness ==
    /\ ret.op = "set_rate"
    /\ target \div 6000000 = 255
    /\ FieldValue(reg, factors.n, factors.nlen) = 31
    /\ FieldValue(reg, factors.k, factors.klen) = 1

\* a <= b for two 32-bit values.
LeU32(a, b) == a.hi < b.hi \/ (a.hi = b.hi /\ a.lo <= b.lo)

\* C16: no overclocking: the frequency the committed PLL1 factors produce,
\* (24,000,000 * n * (k+1) >> p) / (m+1) as recalc_rate reads it back, is
\* at most the rounded frequency, which is at most the requested target.
C16_NoOverclocking ==
    [][(ret.op = "set_rate" /\ ret'.op = "recalc_rate")
       => /\ LeU32(ret'.val, U32(sunxi_get_pll1_factors(target).val))
          /\ sunxi_get_pll1_factors(target).val <= target]_vars

\* Target 203,999,999: rounded to 198,000,000, the factors give 192,000,000.
C16_Witness ==
    /\ target = 203999999
    /\ ret.op = "recalc_rate"
    /\ ret.val = U32(192000000)

(***************************************************************************)
(* Further claims about the factor clock (Spec)                            *)
(***************************************************************************)

\* C12: the stabilization delay of set_rate is (committed_rate >> 20) * 250,
\* committed_rate being the frequency of the entry that was resolved and
\* written, whether or not the requested target is exactly achievable.
C12_DelayFollowsCommittedRate ==
    (ret.op = "set_rate" /\ ret.pos \in RealEntries(table))
        => ret.delay = (table[ret.pos].val \div (2^20)) * 250

(***************************************************************************)
(* Claims about the gate node and the query operations (SpecGate)          *)
(***************************************************************************)

\* C13: from any register word and after any calls, an is_enabled that
\* follows an enable returns 1 (true) and an is_enabled that follows a
\* disable returns 0 (false).
C13_IsEnabledFollowsLastCall ==
    [][/\ (ret.op = "enable" /\ ret'.op = "is_enabled") => ret'.val = U32(1)
       /\ (ret.op = "disable" /\ ret'.op = "is_enabled") => ret'.val = U32(0)
      ]_vars

\* is_enabled has answered 1 on a word that was empty before the enable.
C13_Witness ==
    /\ ret.op = "is_enabled"
    /\ ret.val = U32(1)
    /\ gate.bit_idx = 31
    /\ reg = {31}

\* C19: enable and disable change the gate bit only, for every register
\* word and every bit index 0..31: the other 31 bits keep their values, the
\* gate bit is 1 after enable and 0 after disable, and applying the same
\* operation once more gives the same word.
C19_GateFrame ==
    [][ret'.op \in {"enable", "disable"}
       => /\ \A b \in Word \ {gate.bit_idx} : b \in reg' <=> b \in reg
          /\ gate.bit_idx \in reg' <=> ret'.op = "enable"
          /\ gate_endisable(reg', gate.bit_idx, ret'.op = "enable") = reg'
      ]_vars

\* A disable has cleared bit 17 of a word that was all ones, and an enable
\* has set bit 17 of an empty word.
C19_Witness ==
    /\ gate.bit_idx = 17
    /\ \/ ret.op = "disable" /\ reg = Word \ {17}
       \/ ret.op = "enable" /\ reg = {17}

\* C20: the four query operations (round_rate and recalc_rate of the factor
\* clock, is_enabled and the rate query of the gate) leave the register word
\* and the lock as they were.
C20_QueriesAreReadOnly ==
    [][ret'.op \in {"round_rate", "recalc_rate", "is_enabled",
                    "gate_recalc_rate"}
       => reg' = reg /\ clk_lock' = clk_lock]_vars

\* A query has run on a register that a disable had changed before.
C20_Witness ==
    /\ ret.op \in {"round_rate", "recalc_rate", "is_enabled",
                   "gate_recalc_rate"}
    /\ gate.bit_idx = 4
    /\ reg = Word \ {4}
    /\ clk_lock = 0

(***************************************************************************)
(* Claims about the setup functions (SpecSetup)                            *)
(***************************************************************************)

\* C14: when the construction of a clock fails (its register function
\* returns an error value), the setup code registers nothing for it: no
\* clock provider and no clkdev lookup holds an error value.
C14_FailedSetupRegistersNothing ==
    /\ \A pr \in registered.providers : ~IS_ERR(pr.clk)
    /\ \A l \in registered.lookups : ~IS_ERR(l.clk)


\* A set_rate step that commits a real entry with a factor wider than its
\* field.
OverWideSetRate ==
    /\ ret'.op = "set_rate"
    /\ ret'.pos \in RealEntries(table)
    /\ ~InRange(table[ret'.pos], factors)

\* C17 as stated: a factor wider than its field is cut to the field by
\* masking: after set_rate each field holds the low width bits of its
\* factor and no bit outside the four fields has changed.
C17_TruncatesByMasking ==
    [][OverWideSetRate
       => LET e == table[ret'.pos]
          IN  /\ FieldValue(reg', factors.n, factors.nlen)
                     = e.n % (2^factors.nlen)
              /\ FieldValue(reg', factors.k, factors.klen)
                     = e.k % (2^factors.klen)
              /\ FieldValue(reg', factors.m, factors.mlen)
                     = e.m % (2^factors.mlen)
              /\ FieldValue(reg', factors.p, factors.plen)
                     = e.p % (2^factors.plen)
              /\ \A b \in Word \ FieldBits(factors) :
                     (b \in reg') <=> (b \in reg)]_vars

\* The bits that the insertions following a field's own insertion clear:
\* set_rate inserts m, k, n, p in this order.
ClearedAfter(f, name) ==
    LET clrd(bit, len) == Word \ UNION CLRMASK(len, bit)
    IN  CASE name = "m" -> clrd(f.k, f.klen) \cup clrd(f.n, f.nlen)
                               \cup clrd(f.p, f.plen)
          [] name = "k" -> clrd(f.n, f.nlen) \cup clrd(f.p, f.plen)
          [] name = "n" -> clrd(f.p, f.plen)
          [] name = "p" -> {}

\* C17, amended: a factor wider than its field is not cut: the whole value
\* shifted to the field's offset is ORed into the word, so each of its one
\* bits, those above the field included, is set after set_rate unless the
\* insertion of a later field clears it.
C17_OverWideValueSpills ==
    [][OverWideSetRate
       => LET e == table[ret'.pos]
              val(name) == CASE name = "m" -> e.m [] name = "k" -> e.k
                             [] name = "n" -> e.n [] name = "p" -> e.p
          IN  \A name \in FieldNames :
                \A b \in Shl(BitsOf(val(name)), FieldBit(factors, name)) :
                    b \in Word \ ClearedAfter(factors, name) => b \in reg'
      ]_vars

\* The 48 MHz entry (n = 68, k = 4) has been committed to an empty PLL1
\* register: bit 6 above the k field and bit 14 above the n field are set.
C17_Witness ==
    /\ ret.op = "set_rate"
    /\ factors = pll1_config
    /\ ret.pos \in RealEntries(table)
    /\ table[ret.pos] = Row48M
    /\ reg = {6, 10, 14, 16}


(***************************************************************************)
(* Claims about nodes sharing a control word (SpecShared)                  *)
(***************************************************************************)

\* Between taking its lock and releasing it.
InsideLock(p) == pc[p] \in {"readl", "writel", "unlock"}

\* The word after the calls of p and then q, run one after the other.
OneAfterTheOther(p, q) ==
    field_insert(field_insert(reg0, loc[p].shift, loc[p].width, loc[p].val),
                 loc[q].shift, loc[q].width, loc[q].val)

\* C18: the nodes registered on one control word share one lock, so the
\* read-modify-writes of two of them (a mux at bit 16 and the dividers at
\* bits 0, 4, 8 in particular) are mutually exclusive and no update is
\* lost: when both calls are done the word holds both updates.
C18_SharedWordMutualExclusion ==
    /\ ~(InsideLock(1) /\ InsideLock(2))
    /\ (pc[1] = "done" /\ pc[2] = "done")
           => reg \in {OneAfterTheOther(1, 2), OneAfterTheOther(2, 1)}


(***************************************************************************)
(* Claims about rounding (SpecRound)                                       *)
(***************************************************************************)

\* The factor sets the clock resolves a rate to.
Resolve(rate) ==
    IF IsPll1
    THEN {sunxi_get_pll1_factors(rate)}
    ELSE Deref(table, _get_table_factors(table, rate))

\* The rates the claim covers: any rate for PLL1, the rates from the first
\* entry's frequency on for a table.
InRoundingDomain(rate) == IsPll1 \/ rate >= table[1].val

\* A round_rate of a covered rate is followed by a call with its result.
CallWithRounded ==
    /\ ret.op = "round_rate"
    /\ InRoundingDomain(ret.rate)
    /\ ret'.op \in {"round_rate", "set_rate"}
    /\ U32(ret'.rate) = ret.val

\* C21: rounding is idempotent and agrees with committing: round_rate of
\* an already rounded rate returns it unchanged, and set_rate of the
\* rounded rate selects the factor set and frequency that set_rate of the
\* original rate selects (and writes the same register word).
C21_RoundingIdempotent ==
    [][CallWithRounded
       => /\ Resolve(ret'.rate) = Resolve(ret.rate)
          /\ ret'.op = "round_rate" => ret'.val = ret.val
          /\ ret'.op = "set_rate"
                => /\ ret'.pos = ret.pos
                   /\ reg' \in UNION {set_factors(factors, reg, e) :
                                         e \in Resolve(ret.rate)}]_vars

\* 10 MHz was rounded to the 6 MHz entry, and 6 MHz has been committed.
C21_Witness ==
    /\ ~IsPll1
    /\ target = 10000000
    /\ ret.op = "set_rate"
    /\ ret.rate = 6000000
    /\ ret.pos = 1

=============================================================================
